---- MODULE Spec2Model ----
(***************************************************************************)
(* Model of the GEN3 tactile-sensor serial protocol scripts:               *)
(*   Read_Single_Sensor_Hand.py (high-speed board)  -- called "Hand" below *)
(*   Read_Single_Sensor_Usb.py  (single-port board) -- called "Usb" below  *)
(* Bytes are integers 0..255, byte strings are sequences of bytes, hex     *)
(* strings are sequences of one-character strings.  Python's None is the   *)
(* record None; a returned value v is Some(v).                             *)
(***************************************************************************)
EXTENDS Integers, Sequences, FiniteSets, TLC

VARIABLES
    fn,         \* name of the function called last ("none" before any call)
    args,       \* its arguments
    ret,        \* its return value (meaningful once pc = "idle")
    pc,         \* position inside the running register operation, "idle" between calls
    ser_out,    \* bytes the running operation has written to the port
    wire,       \* bytes the device has still to deliver
    in_waiting, \* bytes sitting in the port's receive buffer (ser.in_waiting)
    recv_data,  \* read_serial_data: the accumulated buffer
    elapsed,    \* read_serial_data: time.time() - start_time, in poll periods
    reader_ret, \* what read_serial_data returned to its caller
    parsed,     \* the parser's result kept by the caller
    now,        \* a direct call of the reader: poll periods since it began
    last_rx,    \* a direct call of the reader: the value of now when it last took
                \* bytes from the port
    read_end,   \* how the wait for the last request's response ended ("none"
                \* before any request, "pending" while it is awaited)
    mpc,        \* position inside main / monitor_auto_push, "none" outside them
    ser,        \* main's local ser: "none", "open" or "closed"
    events,     \* main / monitor_auto_push: writes to the port and other events, in order
    samples,    \* monitor_auto_push: the records it has printed, in order
    mon_now     \* monitor_auto_push: time.time() - start_time, in poll periods

vars == <<fn, args, ret, pc, ser_out, wire, in_waiting, recv_data, elapsed, reader_ret,
          parsed, now, last_rx, read_end, mpc, ser, events, samples, mon_now>>

(***************************************************************************)
(* Bounds of the model.                                                    *)
(***************************************************************************)
MaxLrcLen == 3      \* longest byte string fed to the checksum functions on their own
MaxShort == 2       \* longest free-form (unstructured) buffer fed to the parsers
TimeoutPolls == 2   \* poll periods that make up one read timeout (TIMEOUT_CMD)
AutoPushPolls == 2  \* poll periods of the reader's timeout in monitor_auto_push
MonDuration == 2    \* poll periods of a monitoring duration

(***************************************************************************)
(* Protocol constants (Hand, lines 8-27).                                  *)
(***************************************************************************)
AUTO_PUSH_REG == 23
VERSION_REG == 0
VERSION_DATA_LEN == 15
DATA_TYPE_REG == 22
FUNC_READ == 3
FUNC_WRITE == 16
AUTO_PUSH_FRAME_HEAD == <<170, 86>>
REQ_HEAD == <<85, 170>>
RESP_HEAD_GENERAL == <<170, 85>>
RESP_HEAD_AUTO_PUSH == <<170, 86>>
RESERVED == <<0>>
CMD_EXAMPLE_AUTO_PUSH ==
    <<"5","5","A","A","0","0","1","0","1","7","0","0","0","1","0","0","0","1","D","8">>
CMD_EXAMPLE_VERSION ==
    <<"5","5","A","A","0","0","0","3","0","0","0","0","0","F","0","0","E","F">>

(***************************************************************************)
(* Python values and built-ins.                                            *)
(***************************************************************************)
None == [none |-> TRUE, val |-> <<>>]
Some(v) == [none |-> FALSE, val |-> v]

Min(a, b) == IF a <= b THEN a ELSE b
Max(a, b) == IF a >= b THEN a ELSE b

\* s[a:b] for 0 <= a and any integer b (negative b counts from the end); clamps.
Slice(s, a, b) ==
    LET e == IF b < 0 THEN Max(Len(s) + b, 0) ELSE Min(b, Len(s))
    IN  IF a >= e THEN <<>> ELSE SubSeq(s, a + 1, e)

\* s[a:]
SliceFrom(s, a) == Slice(s, a, Len(s))

IndexError == -1
\* s[i]; IndexError when i is outside the sequence (negative i counts from the end).
GetItem(s, i) ==
    IF i >= 0 /\ i < Len(s) THEN s[i + 1]
    ELSE IF i < 0 /\ -i <= Len(s) THEN s[Len(s) + i + 1]
    ELSE IndexError

\* a & b for non-negative integers.
RECURSIVE BitAnd(_, _)
BitAnd(a, b) ==
    IF a = 0 \/ b = 0 THEN 0
    ELSE (a % 2) * (b % 2) + 2 * BitAnd(a \div 2, b \div 2)

\* ~x on Python's unbounded two's-complement integers.
BitNot(x) == -x - 1

\* x & 0xFF for any integer x: the low eight bits of its two's complement.
AndFF(x) == x % 256

\* int.from_bytes(b, "little")
RECURSIVE from_bytes_little(_)
from_bytes_little(b) ==
    IF Len(b) = 0 THEN 0 ELSE b[1] + 256 * from_bytes_little(Tail(b))

OverflowError == <<-1>>
\* n.to_bytes(size, "little"); OverflowError when n does not fit (or is negative).
RECURSIVE to_bytes_little(_, _)
to_bytes_little(n, size) ==
    IF n < 0 THEN OverflowError
    ELSE IF size = 0 THEN (IF n = 0 THEN <<>> ELSE OverflowError)
    ELSE LET rest == to_bytes_little(n \div 256, size - 1)
         IN  IF rest = OverflowError THEN OverflowError ELSE <<n % 256>> \o rest

\* n.to_bytes(1, "big")
to_bytes_1(n) == to_bytes_little(n, 1)

HexLower == <<"0","1","2","3","4","5","6","7","8","9","a","b","c","d","e","f">>
\* bytes.hex(): two lower-case digits per byte.
RECURSIVE hex(_)
hex(b) ==
    IF Len(b) = 0 THEN <<>>
    ELSE <<HexLower[(b[1] \div 16) + 1], HexLower[(b[1] % 16) + 1]>> \o hex(Tail(b))

UpperChar(c) ==
    CASE c = "a" -> "A" [] c = "b" -> "B" [] c = "c" -> "C"
      [] c = "d" -> "D" [] c = "e" -> "E" [] c = "f" -> "F" [] OTHER -> c
\* str.upper()
upper(s) == [i \in 1..Len(s) |-> UpperChar(s[i])]

HexVal(c) ==
    CASE c = "0" -> 0 [] c = "1" -> 1 [] c = "2" -> 2 [] c = "3" -> 3
      [] c = "4" -> 4 [] c = "5" -> 5 [] c = "6" -> 6 [] c = "7" -> 7
      [] c = "8" -> 8 [] c = "9" -> 9
      [] c \in {"a", "A"} -> 10 [] c \in {"b", "B"} -> 11 [] c \in {"c", "C"} -> 12
      [] c \in {"d", "D"} -> 13 [] c \in {"e", "E"} -> 14 [] c \in {"f", "F"} -> 15
      [] OTHER -> -1
ValueError == <<-2>>
\* bytes.fromhex(s); ValueError on an odd length or a non-hex character.
fromhex(s) ==
    IF Len(s) % 2 # 0 \/ \E i \in 1..Len(s) : HexVal(s[i]) < 0 THEN ValueError
    ELSE [i \in 1..(Len(s) \div 2) |-> 16 * HexVal(s[2 * i - 1]) + HexVal(s[2 * i])]

\* head in buf  /  buf.find(head): the 0-based position of the first occurrence.
Occurs(head, buf) ==
    {p \in 0..(Len(buf) - Len(head)) : Slice(buf, p, p + Len(head)) = head}
contains(head, buf) == Occurs(head, buf) # {}
find(head, buf) == CHOOSE p \in Occurs(head, buf) : \A q \in Occurs(head, buf) : p <= q

(***************************************************************************)
(* Checksum (Hand calc_lrc, Usb calculate_lrc).                            *)
(***************************************************************************)
\* the accumulation loop: lrc_sum = (lrc_sum + byte) & 0xFF for each byte
RECURSIVE LrcLoop(_, _)
LrcLoop(lrc_sum, data) ==
    IF Len(data) = 0 THEN lrc_sum
    ELSE LrcLoop(AndFF(lrc_sum + Head(data)), Tail(data))

calc_lrc_no_increment(data) == AndFF(BitNot(LrcLoop(0, data)))
calc_lrc(data) == AndFF(BitNot(LrcLoop(0, data)) + 1)

calculate_lrc(data) ==
    LET lrc == LrcLoop(0, data) IN AndFF(BitNot(lrc) + 1)

(***************************************************************************)
(* Frame builder (Hand build_request_frame).  Any exception raised inside  *)
(* the try block (here: to_bytes overflowing) is caught and yields None.   *)
(***************************************************************************)
build_request_frame_big_endian(func_code, reg_addr, data_len, write_data) ==
    LET reg_addr_bytes == to_bytes_little(reg_addr, 2)
        data_len_bytes == to_bytes_little(data_len, 2)
        func_bytes == to_bytes_1(func_code)
    IN  IF OverflowError \in {reg_addr_bytes, data_len_bytes, func_bytes} THEN None
        ELSE LET frame_without_lrc ==
                     REQ_HEAD \o RESERVED \o func_bytes
                     \o <<reg_addr_bytes[2], reg_addr_bytes[1]>>
                     \o <<data_len_bytes[2], data_len_bytes[1]>> \o write_data
                 lrc == to_bytes_1(calc_lrc(frame_without_lrc))
             IN  Some(upper(hex(frame_without_lrc \o lrc)))

build_request_frame_len_first(func_code, reg_addr, data_len, write_data) ==
    LET reg_addr_bytes == to_bytes_little(reg_addr, 2)
        data_len_bytes == to_bytes_little(data_len, 2)
        func_bytes == to_bytes_1(func_code)
    IN  IF OverflowError \in {reg_addr_bytes, data_len_bytes, func_bytes} THEN None
        ELSE LET frame_without_lrc ==
                     REQ_HEAD \o RESERVED \o func_bytes
                     \o data_len_bytes \o reg_addr_bytes \o write_data
                 lrc == to_bytes_1(calc_lrc(frame_without_lrc))
             IN  Some(upper(hex(frame_without_lrc \o lrc)))

build_request_frame_lower_hex(func_code, reg_addr, data_len, write_data) ==
    LET reg_addr_bytes == to_bytes_little(reg_addr, 2)
        data_len_bytes == to_bytes_little(data_len, 2)
        func_bytes == to_bytes_1(func_code)
    IN  IF OverflowError \in {reg_addr_bytes, data_len_bytes, func_bytes} THEN None
        ELSE LET frame_without_lrc ==
                     REQ_HEAD \o RESERVED \o func_bytes
                     \o reg_addr_bytes \o data_len_bytes \o write_data
                 lrc == to_bytes_1(calc_lrc(frame_without_lrc))
             IN  Some(hex(frame_without_lrc \o lrc))

build_request_frame(func_code, reg_addr, data_len, write_data) ==
    LET reg_addr_bytes == to_bytes_little(reg_addr, 2)
        data_len_bytes == to_bytes_little(data_len, 2)
        func_bytes == to_bytes_1(func_code)
    IN  IF OverflowError \in {reg_addr_bytes, data_len_bytes, func_bytes} THEN None
        ELSE LET frame_without_lrc ==
                     REQ_HEAD \o RESERVED \o func_bytes
                     \o reg_addr_bytes \o data_len_bytes \o write_data
                 lrc == to_bytes_1(calc_lrc(frame_without_lrc))
                 full_frame == frame_without_lrc \o lrc
                 frame_hex == upper(hex(full_frame))
             IN  Some(frame_hex)

\* the two consistency checks against the example commands (lines 126-131):
\* TRUE when the builder would log the "differs from the example" warning.
ExampleWarning(func_code, reg_addr, data_len, write_data) ==
    LET r == build_request_frame(func_code, reg_addr, data_len, write_data)
    IN  /\ ~r.none
        /\ \/ /\ func_code = FUNC_WRITE /\ reg_addr = AUTO_PUSH_REG
              /\ write_data = <<1>> /\ data_len = 1
              /\ r.val # CMD_EXAMPLE_AUTO_PUSH
           \/ /\ func_code = FUNC_READ /\ reg_addr = VERSION_REG
              /\ data_len = VERSION_DATA_LEN
              /\ r.val # CMD_EXAMPLE_VERSION

(***************************************************************************)
(* Frame parsers.  A parser returns a dict or None; the model pairs the    *)
(* return value with the message the parser logs on that path:             *)
(*   "frame_too_short", "head_mismatch", "invalid_func", "exception" (the  *)
(*   except branch), "device_error", "parsed".                             *)
(***************************************************************************)
ParseFail(log) == [none |-> TRUE, val |-> <<>>, log |-> log]
ParseOk(d, log) == [none |-> FALSE, val |-> d, log |-> log]

AutoTooShort(response) == Len(response) < 7

AutoHeadBadFirstByteOnly(response) == Slice(response, 0, 1) # <<170>>
AutoHeadBad(response) == Slice(response, 0, 2) # RESP_HEAD_AUTO_PUSH

\* the dict parse_auto_response builds (lines 153-178)
AutoFieldsNoMinusOne(response) ==
    LET n == Len(response)
        valid_frame_len == from_bytes_little(Slice(response, 3, 5))
        valid_data_len == valid_frame_len
        data_end_pos == 6 + valid_data_len
        lrc_recv == IF n >= 7 THEN GetItem(response, -1) ELSE 0
        lrc_checked == n >= 6 + valid_data_len + 1
        lrc_calc == IF lrc_checked THEN calc_lrc(Slice(response, 0, -1)) ELSE 0
    IN  [ head |-> hex(Slice(response, 0, 2)),
          reserved |-> GetItem(response, 2),
          valid_frame_len |-> valid_frame_len,
          error_code |-> GetItem(response, 5),
          valid_data |->
              IF valid_data_len > 0
              THEN IF data_end_pos <= n - 1
                   THEN Slice(response, 6, data_end_pos)
                   ELSE Slice(response, 6, -1)
              ELSE <<>>,
          valid_data_len |-> valid_data_len,
          lrc_valid |-> lrc_checked /\ lrc_calc = lrc_recv,
          lrc_calc |-> lrc_calc,
          lrc_recv |-> lrc_recv ]

AutoFields(response) ==
    LET n == Len(response)
        valid_frame_len == from_bytes_little(Slice(response, 3, 5))
        valid_data_len == valid_frame_len - 1
        data_end_pos == 6 + valid_data_len
        lrc_recv == IF n >= 7 THEN GetItem(response, -1) ELSE 0
        lrc_checked == n >= 6 + valid_data_len + 1
        lrc_calc == IF lrc_checked THEN calc_lrc(Slice(response, 0, -1)) ELSE 0
    IN  [ head |-> hex(Slice(response, 0, 2)),
          reserved |-> GetItem(response, 2),
          valid_frame_len |-> valid_frame_len,
          error_code |-> GetItem(response, 5),
          valid_data |->
              IF valid_data_len > 0
              THEN IF data_end_pos <= n - 1
                   THEN Slice(response, 6, data_end_pos)
                   ELSE Slice(response, 6, -1)
              ELSE <<>>,
          valid_data_len |-> valid_data_len,
          lrc_valid |-> lrc_checked /\ lrc_calc = lrc_recv,
          lrc_calc |-> lrc_calc,
          lrc_recv |-> lrc_recv ]

AutoRaised(d) == IndexError \in {d.reserved, d.error_code, d.lrc_recv}

parse_auto_response(response) ==
    IF AutoTooShort(response) THEN ParseFail("frame_too_short")
    ELSE IF AutoHeadBad(response) THEN ParseFail("head_mismatch")
    ELSE LET d == AutoFields(response)
         IN  IF AutoRaised(d) THEN ParseFail("exception") ELSE ParseOk(d, "parsed")

PushTooShort(data) == Len(data) < 7
PushHeadBad(data) == Slice(data, 0, 2) # AUTO_PUSH_FRAME_HEAD

\* the dict parse_auto_push_data builds (lines 371-403)
PushFieldsLrcUnchecked(data, expected_length) ==
    LET n == Len(data)
        valid_frame_len == from_bytes_little(Slice(data, 3, 5))
        valid_data_len == valid_frame_len - 1
        data_end_pos == 6 + valid_data_len
        lrc_recv == IF n >= 7 THEN GetItem(data, -1) ELSE 0
    IN  [ head |-> hex(Slice(data, 0, 2)),
          reserved |-> GetItem(data, 2),
          valid_frame_len |-> valid_frame_len,
          error_code |-> GetItem(data, 5),
          valid_data |->
              IF valid_data_len > 0
              THEN IF data_end_pos <= n - 1
                   THEN Slice(data, 6, data_end_pos)
                   ELSE Slice(data, 6, -1)
              ELSE <<>>,
          valid_data_len |-> valid_data_len,
          expected_data_len |-> expected_length,
          length_match |-> expected_length > 0 /\ valid_data_len = expected_length,
          lrc_valid |-> FALSE,
          lrc_calc |-> 0,
          lrc_recv |-> lrc_recv ]

PushFields(data, expected_length) ==
    LET n == Len(data)
        valid_frame_len == from_bytes_little(Slice(data, 3, 5))
        valid_data_len == valid_frame_len - 1
        data_end_pos == 6 + valid_data_len
        lrc_recv == IF n >= 7 THEN GetItem(data, -1) ELSE 0
        lrc_checked == n >= 6 + valid_data_len + 1
        lrc_calc == IF lrc_checked THEN calc_lrc(Slice(data, 0, -1)) ELSE 0
    IN  [ head |-> hex(Slice(data, 0, 2)),
          reserved |-> GetItem(data, 2),
          valid_frame_len |-> valid_frame_len,
          error_code |-> GetItem(data, 5),
          valid_data |->
              IF valid_data_len > 0
              THEN IF data_end_pos <= n - 1
                   THEN Slice(data, 6, data_end_pos)
                   ELSE Slice(data, 6, -1)
              ELSE <<>>,
          valid_data_len |-> valid_data_len,
          expected_data_len |-> expected_length,
          length_match |-> expected_length > 0 /\ valid_data_len = expected_length,
          lrc_valid |-> lrc_checked /\ lrc_calc = lrc_recv,
          lrc_calc |-> lrc_calc,
          lrc_recv |-> lrc_recv ]

parse_auto_push_data(data, expected_length) ==
    IF PushTooShort(data) THEN ParseFail("frame_too_short")
    ELSE IF PushHeadBad(data) THEN ParseFail("head_mismatch")
    ELSE LET d == PushFields(data, expected_length)
         IN  IF AutoRaised(d) THEN ParseFail("exception")
             ELSE ParseOk(d, "parsed")

RespTooShortOffByOne(response) == Len(response) < 7
RespTooShort(response) == Len(response) < 8

RespHeadBad(response) == Slice(response, 0, 2) # RESP_HEAD_GENERAL

\* the dict literal of lines 206-217; error_code is no key of it yet (-1 here)
RespLrcRecv(response) ==
    IF Len(response) >= 9 THEN GetItem(response, -1) ELSE 0

RespFields(response) ==
    [ is_error |-> FALSE,
      reserved |-> GetItem(response, 2),
      func_code |-> GetItem(response, 3),
      reg_addr |-> from_bytes_little(Slice(response, 4, 6)),
      data_len |-> from_bytes_little(Slice(response, 6, 8)),
      actual_data_len |-> IF Len(response) > 8 THEN Len(response) - 9 ELSE 0,
      data |-> <<>>,
      lrc_valid |-> FALSE,
      lrc_calc |-> 0,
      lrc_recv |-> RespLrcRecv(response),
      error_code |-> -1 ]

RespRaised(d) == IndexError \in {d.reserved, d.func_code, d.lrc_recv}

\* lines 220-224: the error bit and the error code
IsErrorFuncWrongBit(func_code) == BitAnd(func_code, 64) # 0
IsErrorFunc(func_code) == BitAnd(func_code, 128) # 0
ErrorCodeOf(func_code) == BitAnd(func_code, 127)

\* lines 231-237
RespDataKeepsLast(response, data_len) ==
    IF data_len > 0 /\ Len(response) >= 8 + data_len + 1
    THEN Slice(response, 8, 8 + data_len)
    ELSE IF data_len > 0
    THEN (IF Len(response) > 8 THEN SliceFrom(response, 8) ELSE <<>>)
    ELSE <<>>

RespData(response, data_len) ==
    IF data_len > 0 /\ Len(response) >= 8 + data_len + 1
    THEN Slice(response, 8, 8 + data_len)
    ELSE IF data_len > 0
    THEN (IF Len(response) > 8 THEN Slice(response, 8, -1) ELSE <<>>)
    ELSE <<>>

\* lines 239-244
RespLrcWholeBuffer(response, d) ==
    IF Len(response) >= 9
    THEN LET c == calc_lrc(response)
         IN  [d EXCEPT !.lrc_calc = c, !.lrc_valid = (c = d.lrc_recv)]
    ELSE d

RespLrc(response, d) ==
    IF Len(response) >= 9
    THEN LET c == calc_lrc(Slice(response, 0, -1))
         IN  [d EXCEPT !.lrc_calc = c, !.lrc_valid = (c = d.lrc_recv)]
    ELSE d

parse_response_func_first(response) ==
    IF RespTooShort(response) THEN ParseFail("frame_too_short")
    ELSE IF RespHeadBad(response) THEN ParseFail("head_mismatch")
    ELSE LET d == RespFields(response)
         IN  IF RespRaised(d) THEN ParseFail("exception")
             ELSE IF d.func_code \notin {FUNC_READ, FUNC_WRITE}
             THEN ParseFail("invalid_func")
             ELSE IF IsErrorFunc(d.func_code)
             THEN ParseOk([d EXCEPT !.is_error = TRUE,
                                    !.error_code = ErrorCodeOf(d.func_code)],
                          "device_error")
             ELSE ParseOk(RespLrc(response,
                                  [d EXCEPT !.data = RespData(response, d.data_len)]),
                          "parsed")

parse_response(response) ==
    IF RespTooShort(response) THEN ParseFail("frame_too_short")
    ELSE IF RespHeadBad(response) THEN ParseFail("head_mismatch")
    ELSE LET d == RespFields(response)
         IN  IF RespRaised(d) THEN ParseFail("exception")
             ELSE IF IsErrorFunc(d.func_code)
             THEN ParseOk([d EXCEPT !.is_error = TRUE,
                                    !.error_code = ErrorCodeOf(d.func_code)],
                          "device_error")
             ELSE IF d.func_code \notin {FUNC_READ, FUNC_WRITE}
             THEN ParseFail("invalid_func")
             ELSE ParseOk(RespLrc(response,
                                  [d EXCEPT !.data = RespData(response, d.data_len)]),
                          "parsed")

(***************************************************************************)
(* The inputs the model draws from: byte strings, and the frames a device  *)
(* (or a noisy link) can put on the line.  DeviceLrc is the checksum of    *)
(* the protocol document, computed without the code's running mask.        *)
(***************************************************************************)
MaxData == 2        \* longest payload carried by a generated frame

LrcBytes == {0, 1, 127, 128, 255}
DataBytes == {0, 1}

RECURSIVE SeqsUpTo(_, _)
SeqsUpTo(S, n) ==
    IF n = 0 THEN {<<>>}
    ELSE LET shorter == SeqsUpTo(S, n - 1)
         IN  shorter \cup {Append(s, x) : s \in {t \in shorter : Len(t) = n - 1}, x \in S}

Prefixes(s) == {SubSeq(s, 1, k) : k \in 0..Len(s)}

RECURSIVE ByteSum(_)
ByteSum(b) == IF Len(b) = 0 THEN 0 ELSE Head(b) + ByteSum(Tail(b))
DeviceLrc(b) == (256 - (ByteSum(b) % 256)) % 256

Lo(n) == n % 256
Hi(n) == (n \div 256) % 256

\* body followed by its checksum, off by delta (0 = a correct checksum)
WithLrc(body, delta) == body \o <<(DeviceLrc(body) + delta) % 256>>

GeneralFrame(head, func, addr, dlen, data, delta) ==
    WithLrc(head \o <<0, func, Lo(addr), Hi(addr), Lo(dlen), Hi(dlen)>> \o data, delta)

AutoFrame(head, vlen, err, data, delta) ==
    WithLrc(head \o <<0, Lo(vlen), Hi(vlen), err>> \o data, delta)

Datas == SeqsUpTo(DataBytes, MaxData)
Heads == {RESP_HEAD_GENERAL, RESP_HEAD_AUTO_PUSH, REQ_HEAD}
RespFuncs == {FUNC_READ, FUNC_WRITE, 4, 131, 133, 144}

\* general-response frames: declared length right or one too large, checksum
\* right or wrong, any head, plain / error / unknown function codes
GeneralFrames ==
    {GeneralFrame(h, f, AUTO_PUSH_REG, Len(d) + over, d, delta) :
        h \in Heads, f \in RespFuncs, d \in Datas, over \in {0, 1}, delta \in {0, 1}}

\* auto-push frames: valid_frame_len = data + 1, one too large, or 0
AutoFrames ==
    UNION {{AutoFrame(h, vlen, err, d, delta) :
               h \in {RESP_HEAD_AUTO_PUSH, RESP_HEAD_GENERAL}, err \in {0, 1},
               delta \in {0, 1}, vlen \in {0, Len(d) + 1, Len(d) + 2}} : d \in Datas}

\* what a parser can be handed: every prefix of a frame, a frame followed by a
\* stray byte, and short arbitrary buffers
StrayBytesAfter == {0, 1, 255}
ParserInputs ==
    UNION {Prefixes(f) \cup {f \o <<b>> : b \in StrayBytesAfter} :
              f \in GeneralFrames \cup AutoFrames}
    \cup SeqsUpTo({0, 85, 86, 170}, MaxShort)

BuilderFuncs == {FUNC_READ, FUNC_WRITE}
BuilderAddrs == {0, 22, 23, 255, 256, 4660, 65535, 65536}
BuilderLens == {0, 1, 2, 15, 255, 256, 512, 513, 65535, 65536}
ElevenBytes == <<1, 2, 3, 4, 5, 6, 7, 8, 9, 10, 11>>
BuilderDatas == Datas \cup {ElevenBytes}

(***************************************************************************)
(* Calls of the pure functions.  Each is one atomic step that leaves the   *)
(* port untouched.                                                         *)
(***************************************************************************)
port == <<pc, ser_out, wire, in_waiting, recv_data, elapsed, reader_ret, parsed, now,
          last_rx, read_end, mpc, ser, events, samples, mon_now>>

\* nothing has been called yet: every run of the model follows one call from
\* the freshly opened port to its return
Fresh == pc = "idle" /\ fn = "none"

Call_calc_lrc ==
    /\ Fresh
    /\ \E data \in SeqsUpTo(LrcBytes, MaxLrcLen) :
          /\ fn' = "calc_lrc"
          /\ args' = [data |-> data]
          /\ ret' = calc_lrc(data)
    /\ UNCHANGED port

Call_calculate_lrc ==
    /\ Fresh
    /\ \E data \in SeqsUpTo(LrcBytes, MaxLrcLen) :
          /\ fn' = "calculate_lrc"
          /\ args' = [data |-> data]
          /\ ret' = calculate_lrc(data)
    /\ UNCHANGED port

Call_build_request_frame ==
    /\ Fresh
    /\ \E func_code \in BuilderFuncs, reg_addr \in BuilderAddrs,
          data_len \in BuilderLens, write_data \in BuilderDatas :
          /\ fn' = "build_request_frame"
          /\ args' = [func_code |-> func_code, reg_addr |-> reg_addr,
                      data_len |-> data_len, write_data |-> write_data]
          /\ ret' = build_request_frame(func_code, reg_addr, data_len, write_data)
    /\ UNCHANGED port

Call_parse_response ==
    /\ Fresh
    /\ \E response \in ParserInputs :
          /\ fn' = "parse_response"
          /\ args' = [response |-> response]
          /\ ret' = parse_response(response)
    /\ UNCHANGED port

Call_parse_auto_response ==
    /\ Fresh
    /\ \E response \in ParserInputs :
          /\ fn' = "parse_auto_response"
          /\ args' = [response |-> response]
          /\ ret' = parse_auto_response(response)
    /\ UNCHANGED port

Call_parse_auto_push_data ==
    /\ Fresh
    /\ \E data \in ParserInputs, expected_length \in {0, 1} :
          /\ fn' = "parse_auto_push_data"
          /\ args' = [data |-> data, expected_length |-> expected_length]
          /\ ret' = parse_auto_push_data(data, expected_length)
    /\ UNCHANGED port

Init ==
    /\ fn = "none"
    /\ args = <<>>
    /\ ret = None
    /\ pc = "idle"
    /\ ser_out = <<>>
    /\ wire = <<>>
    /\ in_waiting = <<>>
    /\ recv_data = <<>>
    /\ elapsed = 0
    /\ reader_ret = None
    /\ parsed = ParseFail("none")
    /\ now = 0
    /\ last_rx = 0
    /\ read_end = "none"
    /\ mpc = "none"
    /\ ser = "none"
    /\ events = <<>>
    /\ samples = <<>>
    /\ mon_now = 0

NextCodec ==
    \/ Call_calc_lrc
    \/ Call_calculate_lrc
    \/ Call_build_request_frame
    \/ Call_parse_response
    \/ Call_parse_auto_response
    \/ Call_parse_auto_push_data

SpecCodec == Init /\ [][NextCodec]_vars

(***************************************************************************)
(* Register access (Hand send_hex_cmd, read_serial_data, read_register,    *)
(* write_register).  A register operation runs in steps: the call checks   *)
(* the length, builds and sends the request; the settle delay passes; the  *)
(* reader polls the port; the poll that ends the read also runs the rest   *)
(* of the operation (parse and return), which touches the port no more.    *)
(* The device's reply is fixed when the request goes out and reaches the   *)
(* receive buffer in chunks of any size at any later time.                 *)
(***************************************************************************)
ValidReadLenFromZero(read_len) == 0 <= read_len /\ read_len <= 512
ValidReadLen(read_len) == 1 <= read_len /\ read_len <= 512

ValidWriteLen(write_len) == 1 <= write_len /\ write_len <= 10

\* the replies a device or a noisy line produces within one exchange
ReplyDatas == SeqsUpTo(DataBytes, MaxData)
DeviceReplies ==
    {<<>>}
    \cup {GeneralFrame(RESP_HEAD_GENERAL, f, AUTO_PUSH_REG, Len(d) + over, d, delta) :
             f \in {FUNC_READ, FUNC_WRITE}, d \in ReplyDatas,
             over \in {0, 1}, delta \in {0, 1}}
    \cup {GeneralFrame(RESP_HEAD_GENERAL, f, AUTO_PUSH_REG, Len(d), d, 0) :
             f \in {4, 131, 144}, d \in {<<>>, <<1>>}}
    \cup {AutoFrame(RESP_HEAD_AUTO_PUSH, Len(d) + 1, err, d, delta) :
             err \in {0, 1}, d \in {<<>>, <<1>>}, delta \in {0, 1}}
    \cup {<<0>> \o GeneralFrame(RESP_HEAD_GENERAL, FUNC_READ, VERSION_REG, 1, <<1>>, 0),
          <<170>> \o GeneralFrame(RESP_HEAD_GENERAL, FUNC_WRITE, AUTO_PUSH_REG, 1, <<0>>, 0),
          <<0>> \o AutoFrame(RESP_HEAD_AUTO_PUSH, 1, 0, <<>>, 0),
          <<170, 85, 0, FUNC_READ, 0>>,
          <<170, 86, 0, 1>>,
          <<0, 85>>}

ReadCalls ==
    {<<VERSION_REG, VERSION_DATA_LEN>>, <<DATA_TYPE_REG, 1>>, <<VERSION_REG, 512>>,
     <<VERSION_REG, 0>>, <<VERSION_REG, 513>>, <<VERSION_REG, -1>>}
WriteCalls ==
    {<<AUTO_PUSH_REG, <<1>>, TRUE>>, <<AUTO_PUSH_REG, <<0>>, FALSE>>,
     <<DATA_TYPE_REG, <<1, 0>>, FALSE>>,
     <<AUTO_PUSH_REG, <<>>, FALSE>>, <<AUTO_PUSH_REG, <<>>, TRUE>>,
     <<AUTO_PUSH_REG, ElevenBytes, FALSE>>, <<AUTO_PUSH_REG, ElevenBytes, TRUE>>}

\* `not response` / `if recv_data:` on Optional[bytes]: None and b"" are falsy
Falsy(r) == r.none \/ r.val = <<>>

\* read_register, lines 273-282: from the reader's result to the return value
read_register_result(resp) ==
    IF Falsy(resp) THEN None
    ELSE LET p == parse_response(resp.val)
         IN  IF p.none \/ p.val.is_error \/ p.val.func_code # FUNC_READ
             THEN None
             ELSE Some(p.val.data)

\* write_register, lines 317-328: the status check of a normal write
WriteStatusFirstByteOnly(data) == ~(Len(data) > 0 /\ data[1] # 0)
WriteStatusOk(data) == ~(Len(data) > 0 /\ from_bytes_little(data) # 0)

\* write_register, lines 311-316: the check of an auto-push response
AutoWriteIgnoreErrorCode(resp) == ~parse_auto_response(resp).none
AutoWriteOk(resp) ==
    LET p == parse_auto_response(resp)
    IN  ~(p.none \/ p.val.error_code # 0)

\* write_register, lines 306-330: from the reader's result to the return value
write_register_result(resp, is_auto_push) ==
    IF Falsy(resp) THEN FALSE
    ELSE IF is_auto_push THEN AutoWriteOk(resp.val)
    ELSE LET p == parse_response(resp.val)
         IN  IF p.none \/ p.val.is_error \/ p.val.func_code # FUNC_WRITE
             THEN FALSE
             ELSE WriteStatusOk(p.val.data)

\* enable_auto_push, line 356: the arguments it hands to write_register
enable_auto_push_args_general ==
    [reg_addr |-> AUTO_PUSH_REG, write_data |-> <<1>>, is_auto_push |-> FALSE]
enable_auto_push_args ==
    [reg_addr |-> AUTO_PUSH_REG, write_data |-> <<1>>, is_auto_push |-> TRUE]

\* the running operation is write_register, called directly or by enable_auto_push
IsWrite == fn \in {"write_register", "enable_auto_push"}
WriteArgs == IF fn = "enable_auto_push" THEN enable_auto_push_args ELSE args

\* the parser the running operation applies to a non-empty response
ParserResult(resp) ==
    IF Falsy(resp) THEN ParseFail("none")
    ELSE IF IsWrite /\ WriteArgs.is_auto_push
    THEN parse_auto_response(resp.val)
    ELSE parse_response(resp.val)

\* the head the running call of the reader waits for; <<>> stands for None
\* (lines 272, 304-305, 441, 507, 529; the Usb reader has no such argument)
ExpectedHead ==
    CASE IsWrite -> IF WriteArgs.is_auto_push THEN RESP_HEAD_AUTO_PUSH
                    ELSE RESP_HEAD_GENERAL
      [] fn = "read_serial_data" -> args.expected_head
      [] fn = "read_serial_response" -> <<>>
      [] fn = "monitor_auto_push" -> AUTO_PUSH_FRAME_HEAD
      [] fn = "main" -> IF mpc = "version" THEN RESP_HEAD_GENERAL
                        ELSE IF mpc = "enable" THEN RESP_HEAD_AUTO_PUSH
                        ELSE AUTO_PUSH_FRAME_HEAD
      [] OTHER -> RESP_HEAD_GENERAL

\* the timeout of the running call of the reader, in poll periods: TIMEOUT_CMD
\* for the register operations and main's two exchanges, TIMEOUT_AUTO_PUSH in
\* monitor_auto_push, the argument of a direct call
Timeout ==
    CASE fn \in {"read_serial_data", "read_serial_response"} -> args.timeout
      [] mpc = "monitor" -> AutoPushPolls
      [] OTHER -> TimeoutPolls

FailValue(f) == IF f = "read_register" THEN None ELSE FALSE

\* send_hex_cmd: the port takes the first k bytes of the command; anything
\* short of the whole command (a partial write, or a write that raised) makes
\* it return False.  Returns to the caller: with False the operation fails at
\* once, with True it goes on to the settle delay.
Send(f, a, frame_hex, reply) ==
    LET cmd_bytes == fromhex(frame_hex)
    IN  /\ fn' = f
        /\ args' = a
        /\ UNCHANGED <<in_waiting, recv_data, elapsed, reader_ret, parsed, now, last_rx,
                       mpc, ser, events, samples, mon_now>>
        /\ IF cmd_bytes = ValueError
           THEN /\ ret' = FailValue(f)
                /\ UNCHANGED <<pc, ser_out, wire, read_end>>
           ELSE \E k \in 0..Len(cmd_bytes) :
                   /\ ser_out' = ser_out \o SubSeq(cmd_bytes, 1, k)
                   /\ IF k = Len(cmd_bytes)
                      THEN /\ pc' = "settle"
                           /\ wire' = reply
                           /\ read_end' = "pending"
                           /\ ret' = FailValue(f)
                      ELSE /\ pc' = "idle"
                           /\ ret' = FailValue(f)
                           /\ UNCHANGED <<wire, read_end>>

\* a call that returns before anything is built or sent
Refuse(f, a) ==
    /\ fn' = f
    /\ args' = a
    /\ ret' = FailValue(f)
    /\ UNCHANGED port

Call_read_register ==
    /\ Fresh
    /\ \E c \in ReadCalls, reply \in DeviceReplies :
          LET a == [reg_addr |-> c[1], read_len |-> c[2]]
              read_frame == build_request_frame(FUNC_READ, a.reg_addr, a.read_len, <<>>)
          IN  IF ~ValidReadLen(a.read_len) THEN Refuse("read_register", a)
              ELSE IF Falsy(read_frame) THEN Refuse("read_register", a)
              ELSE Send("read_register", a, read_frame.val, reply)

\* write_register, lines 287-301, for the call f whose arguments are shown as
\* shown and whose write_register arguments are a
WriteRegisterStart(f, shown, a, reply) ==
    LET write_len == Len(a.write_data)
        write_frame ==
            build_request_frame(FUNC_WRITE, a.reg_addr, write_len, a.write_data)
    IN  IF ~ValidWriteLen(write_len) THEN Refuse(f, shown)
        ELSE IF Falsy(write_frame) THEN Refuse(f, shown)
        ELSE Send(f, shown, write_frame.val, reply)

Call_write_register ==
    /\ Fresh
    /\ \E c \in WriteCalls, reply \in DeviceReplies :
          LET a == [reg_addr |-> c[1], write_data |-> c[2], is_auto_push |-> c[3]]
          IN  WriteRegisterStart("write_register", a, a, reply)

\* enable_auto_push, line 356: write_register on the auto-push register
Call_enable_auto_push ==
    /\ Fresh
    /\ \E reply \in DeviceReplies :
          WriteRegisterStart("enable_auto_push", <<>>, enable_auto_push_args, reply)

\* disable_auto_push, line 337: the frame it builds
DisablePayloadOne == <<1>>
DisablePayload == <<0>>
disable_cmd == build_request_frame(FUNC_WRITE, AUTO_PUSH_REG, 1, DisablePayload)

\* disable_auto_push, lines 333-351: build the frame, send it, sleep 0.1 s and
\* return whether the whole frame went out; the port is not read
Call_disable_auto_push ==
    /\ Fresh
    /\ \E reply \in DeviceReplies :
          IF Falsy(disable_cmd) THEN Refuse("disable_auto_push", <<>>)
          ELSE LET cmd_bytes == fromhex(disable_cmd.val)
               IN  \E k \in 0..Len(cmd_bytes) :
                      /\ fn' = "disable_auto_push"
                      /\ args' = <<>>
                      /\ ser_out' = ser_out \o SubSeq(cmd_bytes, 1, k)
                      /\ ret' = (k = Len(cmd_bytes))
                      /\ IF k = Len(cmd_bytes)
                         THEN wire' = reply /\ read_end' = "pending"
                         ELSE UNCHANGED <<wire, read_end>>
                      /\ UNCHANGED <<pc, in_waiting, recv_data, elapsed, reader_ret,
                                     parsed, now, last_rx, mpc, ser, events, samples,
                                     mon_now>>

\* the device (or the line) puts the next k bytes it has to deliver in the
\* receive buffer, while a reader is about to run or running, or main sleeps
\* between its two exchanges
Deliver ==
    /\ pc \in {"settle", "read"} \/ mpc = "sleep"
    /\ wire # <<>>
    /\ \E k \in 1..Len(wire) :
          /\ in_waiting' = in_waiting \o SubSeq(wire, 1, k)
          /\ wire' = SubSeq(wire, k + 1, Len(wire))
    /\ UNCHANGED <<fn, args, ret, pc, ser_out, recv_data, elapsed, reader_ret, parsed,
                   now, last_rx, read_end, mpc, ser, events, samples, mon_now>>

\* read_serial_data starts (lines 60-61)
StartReader ==
    /\ pc' = "read"
    /\ recv_data' = <<>>
    /\ elapsed' = 0
    /\ now' = 0
    /\ last_rx' = 0

\* read_serial_data has returned buf or None and its caller does not call it again
LeaveReader(buf) ==
    /\ pc' = "idle"
    /\ recv_data' = buf
    /\ UNCHANGED <<elapsed, now, last_rx>>

\* time.sleep(0.2) is over; read_serial_data starts
Settle ==
    /\ pc = "settle"
    /\ StartReader
    /\ UNCHANGED <<fn, args, ret, ser_out, wire, in_waiting, reader_ret, parsed,
                   read_end, mpc, ser, events, samples, mon_now>>

\* an entry of events
Ev(ev, frame, sent) == [ev |-> ev, frame |-> frame, sent |-> sent]

\* monitor_auto_push, lines 442-445: the parse of what the reader returned
push_parse(resp) ==
    IF Falsy(resp) THEN ParseFail("none") ELSE parse_auto_push_data(resp.val, 0)

\* monitor_auto_push, lines 445-451: every record the parser returns is printed
Printed(resp) ==
    IF push_parse(resp).none THEN samples ELSE Append(samples, push_parse(resp).val)

\* monitor_auto_push, line 438: `if duration and time.time() - start_time > duration`
DurationOver == args.duration # 0 /\ mon_now > args.duration

\* a register operation or a direct call of the reader: parse and return
ReturnAfterRead(resp, buf) ==
    /\ parsed' = IF fn \in {"read_serial_data", "read_serial_response"}
                 THEN parsed
                 ELSE ParserResult(resp)
    /\ ret' = CASE fn = "read_register" -> read_register_result(resp)
                [] IsWrite -> write_register_result(resp, WriteArgs.is_auto_push)
                [] OTHER -> resp
    /\ LeaveReader(buf)
    /\ UNCHANGED <<mpc, events, samples>>

\* main, lines 508-518 (version), 530-540 (enable), and the loop of the
\* monitor_auto_push it calls
MainAfterRead(resp, buf) ==
    /\ UNCHANGED ret
    /\ CASE mpc = "version" ->
              /\ parsed' = IF Falsy(resp) THEN ParseFail("none")
                           ELSE parse_response(resp.val)
              /\ mpc' = "sleep"
              /\ LeaveReader(buf)
              /\ UNCHANGED <<events, samples>>
         [] mpc = "enable" ->
              /\ parsed' = IF Falsy(resp) THEN ParseFail("none")
                           ELSE parse_auto_response(resp.val)
              /\ IF ~Falsy(resp) /\ AutoWriteOk(resp.val)
                 THEN /\ mpc' = "monitor"
                      /\ events' = Append(events, Ev("monitor_start", <<>>, 0))
                      /\ StartReader
                 ELSE /\ mpc' = "after"
                      /\ LeaveReader(buf)
                      /\ UNCHANGED events
              /\ UNCHANGED samples
         [] OTHER ->
              /\ parsed' = push_parse(resp)
              /\ samples' = Printed(resp)
              /\ StartReader
              /\ UNCHANGED <<mpc, events>>

\* monitor_auto_push called with a duration (lines 436-453): print the record,
\* then the check at the top of the loop, then the next call of the reader
MonitorAfterRead(resp, buf) ==
    /\ UNCHANGED ret
    /\ parsed' = push_parse(resp)
    /\ samples' = Printed(resp)
    /\ IF DurationOver
       THEN /\ mpc' = "done"
            /\ events' = Append(events, Ev("monitor_end", <<>>, 0))
            /\ LeaveReader(buf)
       ELSE /\ StartReader
            /\ UNCHANGED <<mpc, events>>

\* read_serial_data has returned resp: the rest of the running operation, up
\* to its return or its next call of the reader
Finish(resp, how, buf) ==
    /\ reader_ret' = resp
    /\ read_end' = IF read_end = "pending" THEN how ELSE read_end
    /\ CASE fn = "main" -> MainAfterRead(resp, buf)
         [] fn = "monitor_auto_push" -> MonitorAfterRead(resp, buf)
         [] OTHER -> ReturnAfterRead(resp, buf)

\* the reader was called directly, not from a register operation or a session
DirectRead == fn \in {"read_serial_data", "read_serial_response"}

\* a pass through the loop that finds the receive buffer empty (line 77)
PollIdle ==
    /\ pc = "read"
    /\ elapsed < Timeout
    /\ in_waiting = <<>>
    /\ elapsed' = elapsed + 1
    /\ now' = IF DirectRead THEN now + 1 ELSE now
    /\ mon_now' = IF fn = "monitor_auto_push" /\ args.duration # 0
                  THEN mon_now + 1 ELSE mon_now
    /\ UNCHANGED <<fn, args, ret, pc, ser_out, wire, in_waiting, recv_data, reader_ret,
                   parsed, last_rx, read_end, mpc, ser, events, samples>>

\* line 69: `if expected_head and expected_head in recv_data`, recv_data being
\* what was accumulated before plus the chunk just read
HeadSeenInChunk(head, before, chunk) == head # <<>> /\ contains(head, chunk)
HeadSeen(head, before, chunk) == head # <<>> /\ contains(head, before \o chunk)

\* lines 75-76: start_time = time.time() after a chunk that did not end the read
ElapsedAfterDataKept(e) == e
ElapsedAfterData(e) == 0

\* a pass through the loop that reads a chunk (lines 63-77): with the expected
\* head in the accumulated data the loop is left and the data from the head on
\* is returned, otherwise the timer restarts
PollData ==
    /\ pc = "read"
    /\ elapsed < Timeout
    /\ in_waiting # <<>>
    /\ in_waiting' = <<>>
    /\ LET acc == recv_data \o in_waiting
       IN  IF HeadSeen(ExpectedHead, recv_data, in_waiting)
           THEN LET buf == SliceFrom(acc, find(ExpectedHead, acc))
                IN  Finish(Some(buf), "head", buf)
           ELSE /\ recv_data' = acc
                /\ elapsed' = ElapsedAfterData(elapsed)
                /\ last_rx' = now
                /\ UNCHANGED <<ret, pc, reader_ret, parsed, now, read_end, mpc, events,
                               samples>>
    /\ UNCHANGED <<fn, args, ser_out, wire, ser, mon_now>>

\* the loop condition fails (lines 62, 79-83): the data, or None when there is none
ReadTimeout ==
    /\ pc = "read"
    /\ elapsed >= Timeout
    /\ Finish(IF recv_data # <<>> THEN Some(recv_data) ELSE None, "timeout", recv_data)
    /\ UNCHANGED <<fn, args, ser_out, wire, in_waiting, ser, mon_now>>

\* what the port can raise inside the loop, and the handler of lines 84-86
\* (`except Exception`; Usb lines 51-56 name SerialException first)
ExceptionKinds == {"SerialException", "OSError"}
ReaderCatchesSerialOnly(kind) == kind = "SerialException"
ReaderCatches(kind) == kind \in ExceptionKinds

\* the port raises inside the loop: logged, None returned
ReadRaises ==
    /\ pc = "read"
    /\ \E kind \in ExceptionKinds :
          IF ReaderCatches(kind)
          THEN Finish(None, "raised", recv_data)
          ELSE /\ pc' = "raised"
               /\ UNCHANGED <<ret, recv_data, elapsed, reader_ret, parsed, now, last_rx,
                              read_end, mpc, events, samples>>
    /\ UNCHANGED <<fn, args, ser_out, wire, in_waiting, ser, mon_now>>

Next ==
    \/ Call_calc_lrc
    \/ Call_calculate_lrc
    \/ Call_build_request_frame
    \/ Call_parse_response
    \/ Call_parse_auto_response
    \/ Call_parse_auto_push_data
    \/ Call_read_register
    \/ Call_write_register
    \/ Call_enable_auto_push
    \/ Call_disable_auto_push
    \/ Deliver
    \/ Settle
    \/ PollIdle
    \/ PollData
    \/ ReadTimeout
    \/ ReadRaises

Spec == Init /\ [][Next]_vars

(***************************************************************************)
(* The reader called on its own (Hand read_serial_data, Usb                *)
(* read_serial_response) on a stream that delivers any bytes in any chunks *)
(* at any time.                                                            *)
(***************************************************************************)
MaxStream == 4      \* longest stream handed to a direct call of the reader

ReaderTimeouts == {1, TimeoutPolls}
ReaderHeads == {<<>>, RESP_HEAD_GENERAL, AUTO_PUSH_FRAME_HEAD}
ReaderStreams == SeqsUpTo({0, 85, 170}, MaxStream)

Call_read_serial_data ==
    /\ Fresh
    /\ \E t \in ReaderTimeouts, h \in ReaderHeads, stream \in ReaderStreams :
          /\ fn' = "read_serial_data"
          /\ args' = [timeout |-> t, expected_head |-> h]
          /\ wire' = stream
    /\ StartReader
    /\ read_end' = "pending"
    /\ UNCHANGED <<ret, ser_out, in_waiting, reader_ret, parsed, mpc, ser, events,
                   samples, mon_now>>

\* Usb lines 33-37: start_time is taken, then time.sleep(0.1) passes before
\* the loop is entered; the sleep is one poll period of the model
Call_read_serial_response ==
    /\ Fresh
    /\ \E t \in ReaderTimeouts, stream \in ReaderStreams :
          /\ fn' = "read_serial_response"
          /\ args' = [timeout |-> t]
          /\ wire' = stream
    /\ pc' = "read"
    /\ recv_data' = <<>>
    /\ elapsed' = 1
    /\ now' = 1
    /\ last_rx' = 0
    /\ read_end' = "pending"
    /\ UNCHANGED <<ret, ser_out, in_waiting, reader_ret, parsed, mpc, ser, events,
                   samples, mon_now>>

NextReader ==
    \/ Call_read_serial_data
    \/ Call_read_serial_response
    \/ Deliver
    \/ PollIdle
    \/ PollData
    \/ ReadTimeout
    \/ ReadRaises

SpecReader == Init /\ [][NextReader]_vars

\* the reader's loop is a running thread: a pass that can be made is made.
\* Nothing obliges the device to deliver or the port to raise.
FairSpecReader ==
    /\ Init
    /\ [][NextReader]_vars
    /\ WF_vars(PollIdle)
    /\ WF_vars(PollData)
    /\ WF_vars(ReadTimeout)

(***************************************************************************)
(* The session (Hand main, lines 463-568): open the port, ask for the      *)
(* version, switch auto-push on, monitor, and in the finally block switch  *)
(* auto-push off and close the port.  KeyboardInterrupt or an exception    *)
(* can end the body at any point before the finally block.                 *)
(***************************************************************************)
\* lines 504 and 526: the two command strings main sends
version_cmd ==
    <<"5","5","A","A","0","0","0","3","0","0","0","0","0","F","0","0","E","F">>
auto_push_cmd ==
    <<"5","5","A","A","0","0","1","0","1","7","0","0","0","1","0","0","0","1","D","8">>

PushFrame == AutoFrame(AUTO_PUSH_FRAME_HEAD, 2, 0, <<1>>, 0)
MainVersionReplies ==
    {<<>>, <<0, 85>>, GeneralFrame(RESP_HEAD_GENERAL, FUNC_READ, VERSION_REG, 1, <<1>>, 0)}
MainEnableReplies ==
    {<<>>,
     AutoFrame(RESP_HEAD_AUTO_PUSH, 1, 1, <<>>, 0),
     AutoFrame(RESP_HEAD_AUTO_PUSH, 1, 0, <<>>, 0),
     AutoFrame(RESP_HEAD_AUTO_PUSH, 1, 0, <<>>, 0) \o PushFrame}

\* lines 486-501: serial.Serial(...) opens the port or raises SerialException,
\* which leaves ser = None and leads to the finally block
Call_main ==
    /\ Fresh
    /\ fn' = "main"
    /\ args' = <<>>
    /\ \E opened \in BOOLEAN :
          IF opened
          THEN /\ ser' = "open"
               /\ mpc' = "opened"
               /\ events' = Append(events, Ev("open", <<>>, 0))
          ELSE /\ mpc' = "finally"
               /\ UNCHANGED <<ser, events>>
    /\ UNCHANGED <<ret, pc, ser_out, wire, in_waiting, recv_data, elapsed, reader_ret,
                   parsed, now, last_rx, read_end, samples, mon_now>>

\* what ser.write can take of an n-byte command in a session: nothing, a
\* part of it, or all of it
WriteCounts(n) == {0, 1, n}

\* lines 505-507, 527-529: `if send_hex_cmd(ser, cmd): response = read_serial_data(...)`
WaitsForResponseNever(sent) == FALSE
WaitsForResponse(sent) == sent

\* main sends a command with send_hex_cmd; when it went out whole the reader
\* is called at once, otherwise main prints the failure and goes on
MainSend(frame_hex, reply, wait_mpc, skip_mpc) ==
    LET cmd_bytes == fromhex(frame_hex)
    IN  \E k \in WriteCounts(Len(cmd_bytes)) :
           LET sent == k = Len(cmd_bytes)
           IN  /\ ser_out' = ser_out \o SubSeq(cmd_bytes, 1, k)
               /\ events' = Append(events, Ev("send", cmd_bytes, k))
               /\ IF sent
                  THEN wire' = wire \o reply /\ read_end' = "pending"
                  ELSE UNCHANGED <<wire, read_end>>
               /\ IF WaitsForResponse(sent)
                  THEN mpc' = wait_mpc /\ StartReader
                  ELSE /\ mpc' = skip_mpc
                       /\ UNCHANGED <<pc, recv_data, elapsed, now, last_rx>>
               /\ UNCHANGED <<fn, args, ret, in_waiting, reader_ret, parsed, ser,
                              samples, mon_now>>

\* lines 503-520
MainSendVersion ==
    /\ fn = "main"
    /\ mpc = "opened"
    /\ \E reply \in MainVersionReplies : MainSend(version_cmd, reply, "version", "sleep")

\* line 522 (time.sleep(1) is over) and lines 524-544
MainSendEnable ==
    /\ fn = "main"
    /\ mpc = "sleep"
    /\ \E reply \in MainEnableReplies : MainSend(auto_push_cmd, reply, "enable", "after")

\* KeyboardInterrupt or an exception in the body of main.  Inside
\* monitor_auto_push both are caught there (lines 454-459) and main goes on to
\* line 546; elsewhere main's own handlers (lines 548-555) lead to the finally block.
MainAbort ==
    /\ fn = "main"
    /\ mpc \in {"opened", "version", "sleep", "enable", "monitor"}
    /\ pc' = "idle"
    /\ mpc' = IF mpc = "monitor" THEN "after" ELSE "finally"
    /\ events' = IF mpc = "monitor" THEN Append(events, Ev("monitor_end", <<>>, 0))
                 ELSE events
    /\ read_end' = IF read_end = "pending" THEN "interrupted" ELSE read_end
    /\ UNCHANGED <<fn, args, ret, ser_out, wire, in_waiting, recv_data, elapsed,
                   reader_ret, parsed, now, last_rx, ser, samples, mon_now>>

\* line 546: time.sleep(0.1) is over, the finally block is entered
MainAfter ==
    /\ fn = "main"
    /\ mpc = "after"
    /\ mpc' = "finally"
    /\ UNCHANGED <<fn, args, ret, pc, ser_out, wire, in_waiting, recv_data, elapsed,
                   reader_ret, parsed, now, last_rx, read_end, ser, events, samples,
                   mon_now>>

\* lines 557-564: what follows disable_auto_push in the finally block
AfterDisableOnlyIfSent(sent) == IF sent THEN "close" ELSE "done"
AfterDisable(sent) == "close"

\* lines 556-563: `if ser and ser.is_open:` disable_auto_push(ser), its result printed
MainDisable ==
    /\ fn = "main"
    /\ mpc = "finally"
    /\ IF ser = "open"
       THEN LET cmd_bytes == fromhex(disable_cmd.val)
            IN  \E k \in WriteCounts(Len(cmd_bytes)) :
                   /\ ser_out' = ser_out \o SubSeq(cmd_bytes, 1, k)
                   /\ events' = Append(events, Ev("send", cmd_bytes, k))
                   /\ read_end' = IF k = Len(cmd_bytes) THEN "pending" ELSE read_end
                   /\ mpc' = AfterDisable(k = Len(cmd_bytes))
       ELSE /\ mpc' = "done"
            /\ UNCHANGED <<ser_out, events, read_end>>
    /\ UNCHANGED <<fn, args, ret, pc, wire, in_waiting, recv_data, elapsed, reader_ret,
                   parsed, now, last_rx, ser, samples, mon_now>>

\* lines 564-565: ser.close()
MainClose ==
    /\ fn = "main"
    /\ mpc = "close"
    /\ ser' = "closed"
    /\ events' = Append(events, Ev("close", <<>>, 0))
    /\ mpc' = "done"
    /\ UNCHANGED <<fn, args, ret, pc, ser_out, wire, in_waiting, recv_data, elapsed,
                   reader_ret, parsed, now, last_rx, read_end, samples, mon_now>>

NextMain ==
    \/ Call_main
    \/ MainSendVersion
    \/ MainSendEnable
    \/ MainAbort
    \/ MainAfter
    \/ MainDisable
    \/ MainClose
    \/ Deliver
    \/ PollIdle
    \/ PollData
    \/ ReadTimeout
    \/ ReadRaises

SpecMain == Init /\ [][NextMain]_vars

\* once the body of main is left nothing but the finally block runs: its
\* statements are executed one after the other
FairSpecMain ==
    /\ Init
    /\ [][NextMain]_vars
    /\ WF_vars(MainAfter)
    /\ WF_vars(MainDisable)
    /\ WF_vars(MainClose)

(***************************************************************************)
(* monitor_auto_push called on its own (lines 429-460), with or without a  *)
(* duration, on a stream of auto-push frames, damaged frames and stray     *)
(* bytes.                                                                  *)
(***************************************************************************)
MaxFrames == 2      \* frames in a monitored stream

CorruptFrame == AutoFrame(AUTO_PUSH_FRAME_HEAD, 2, 0, <<1>>, 1)
ShortFrame == SubSeq(PushFrame, 1, 4)
StrayBytes == <<0, 0, 0>>
StreamPieces == {PushFrame, CorruptFrame, ShortFrame, StrayBytes}

RECURSIVE Streams(_)
Streams(n) ==
    IF n = 0 THEN {<<>>}
    ELSE Streams(n - 1) \cup {s \o f : s \in Streams(n - 1), f \in StreamPieces}

Call_monitor_auto_push ==
    /\ Fresh
    /\ \E d \in {0, MonDuration}, stream \in Streams(MaxFrames) :
          /\ fn' = "monitor_auto_push"
          /\ args' = [duration |-> d]
          /\ wire' = stream
    /\ mpc' = "monitor"
    /\ events' = Append(events, Ev("monitor_start", <<>>, 0))
    /\ StartReader
    /\ UNCHANGED <<ret, ser_out, in_waiting, reader_ret, parsed, read_end, ser, samples,
                   mon_now>>

\* lines 454-459: KeyboardInterrupt or an exception ends the monitoring
Cancel ==
    /\ fn = "monitor_auto_push"
    /\ mpc = "monitor"
    /\ mpc' = "done"
    /\ events' = Append(events, Ev("monitor_end", <<>>, 0))
    /\ LeaveReader(<<>>)
    /\ UNCHANGED <<fn, args, ret, ser_out, wire, in_waiting, reader_ret, parsed,
                   read_end, ser, samples, mon_now>>

NextMonitor ==
    \/ Call_monitor_auto_push
    \/ Cancel
    \/ Deliver
    \/ PollIdle
    \/ PollData
    \/ ReadTimeout
    \/ ReadRaises

SpecMonitor == Init /\ [][NextMonitor]_vars

(***************************************************************************)
(* Properties.                                                             *)
(***************************************************************************)

\* C1: for every byte string (the empty one included) both checksum functions
\* return (256 - (sum of the bytes mod 256)) mod 256, and they agree.
C1_LrcIsNegatedByteSum ==
    fn \in {"calc_lrc", "calculate_lrc"} =>
        /\ ret = (256 - (ByteSum(args.data) % 256)) % 256
        /\ calc_lrc(args.data) = calculate_lrc(args.data)

C1_Witness ==
    /\ fn = "calc_lrc"
    /\ ByteSum(args.data) > 256
    /\ ByteSum(args.data) % 256 # 0
    /\ ret = 256 - (ByteSum(args.data) % 256)

\* C2: for function 0x03 or 0x10, an address and a data_len in 0..65535 and any
\* payload, the built frame is 55 AA, 00, function, address low, address high,
\* data_len low, data_len high, the payload, and the LRC of all of that.
C2_Expected(a) ==
    LET body == <<85, 170, 0, a.func_code,
                  a.reg_addr % 256, a.reg_addr \div 256,
                  a.data_len % 256, a.data_len \div 256>> \o a.write_data
    IN  body \o <<DeviceLrc(body)>>

C2_BuilderLayout ==
    ( /\ fn = "build_request_frame"
      /\ args.func_code \in {3, 16}
      /\ args.reg_addr \in 0..65535
      /\ args.data_len \in 0..65535 ) =>
        /\ ~ret.none
        /\ fromhex(ret.val) = C2_Expected(args)
        /\ Len(fromhex(ret.val)) = 9 + Len(args.write_data)

C2_Witness ==
    /\ fn = "build_request_frame"
    /\ args.func_code = 16
    /\ args.reg_addr = 4660
    /\ args.data_len = 513
    /\ args.write_data = <<1, 0>>
    /\ ~ret.none
    /\ fromhex(ret.val) = <<85, 170, 0, 16, 52, 18, 1, 2, 1, 0, 167>>

\* C3: the builder reproduces both documented example commands exactly, and so
\* never logs its "differs from the example" warning (a read carries no payload).
C3_IsAutoPushExample ==
    /\ fn = "build_request_frame"
    /\ args = [func_code |-> 16, reg_addr |-> 23, data_len |-> 1, write_data |-> <<1>>]

C3_IsVersionExample ==
    /\ fn = "build_request_frame"
    /\ args = [func_code |-> 3, reg_addr |-> 0, data_len |-> 15, write_data |-> <<>>]

C3_Examples ==
    /\ C3_IsAutoPushExample => ~ret.none /\ ret.val = CMD_EXAMPLE_AUTO_PUSH
    /\ C3_IsVersionExample => ~ret.none /\ ret.val = CMD_EXAMPLE_VERSION
    /\ (fn = "build_request_frame" /\ (args.func_code = 3 => args.write_data = <<>>)) =>
          ~ExampleWarning(args.func_code, args.reg_addr, args.data_len, args.write_data)

C3_Witness ==
    /\ C3_IsAutoPushExample
    /\ ret.val = CMD_EXAMPLE_AUTO_PUSH
    /\ fromhex(ret.val) = <<85, 170, 0, 16, 23, 0, 1, 0, 1, 216>>

\* C7: a buffer shorter than 8 bytes makes parse_response return None on its
\* "frame too short" path; no buffer makes it index outside the buffer; and
\* for a buffer of exactly 8 bytes no checksum byte is read or verified.
C7_ShortResponse ==
    fn = "parse_response" =>
        /\ Len(args.response) < 8 => ret.none /\ ret.log = "frame_too_short"
        /\ ret.log # "exception"
        /\ (Len(args.response) = 8 /\ ~ret.none) =>
              /\ ret.val.lrc_recv = 0
              /\ ret.val.lrc_calc = 0
              /\ ~ret.val.lrc_valid

C7_Witness ==
    /\ fn = "parse_response"
    /\ Len(args.response) = 7
    /\ Slice(args.response, 0, 2) = <<170, 85>>
    /\ ret.none
    /\ ret.log = "frame_too_short"

\* C8: both auto-push parsers return None on the "frame too short" path for a
\* buffer under 7 bytes, and None on the "head mismatch" path for a buffer of
\* 7 bytes or more that does not start with AA 56.
C8_Buffer == IF fn = "parse_auto_push_data" THEN args.data ELSE args.response

C8_AutoParsersReject ==
    fn \in {"parse_auto_response", "parse_auto_push_data"} =>
        /\ Len(C8_Buffer) < 7 => ret.none /\ ret.log = "frame_too_short"
        /\ (Len(C8_Buffer) >= 7 /\ SubSeq(C8_Buffer, 1, 2) # <<170, 86>>) =>
              ret.none /\ ret.log = "head_mismatch"

C8_Witness ==
    /\ fn = "parse_auto_response"
    /\ Len(args.response) >= 7
    /\ args.response[1] = 170
    /\ args.response[2] = 85
    /\ ret.none
    /\ ret.log = "head_mismatch"

\* C4 as stated: an out-of-range length makes the frame builder itself, as well
\* as read_register and write_register, fail without producing a frame or
\* writing a byte.
C4_AsStated ==
    /\ ( /\ fn = "build_request_frame"
         /\ \/ args.func_code = 3 /\ args.data_len \notin 1..512
            \/ args.func_code = 16 /\ Len(args.write_data) \notin 1..10 ) => ret.none
    /\ (fn = "read_register" /\ args.read_len \notin 1..512) =>
          ret.none /\ ser_out = <<>>
    /\ (fn = "write_register" /\ Len(args.write_data) \notin 1..10) =>
          ret = FALSE /\ ser_out = <<>>

\* C4 (amended): read_register fails (None) for a length outside 1..512 and
\* write_register fails (False) for a payload length outside 1..10, at once, with
\* nothing written to the port and no wait for a reply; the frame builder itself
\* checks no length and builds the frame for any data_len that fits two bytes.
C4_CallersRejectBadLength ==
    /\ (fn = "read_register" /\ args.read_len \notin 1..512) =>
          ret.none /\ ser_out = <<>> /\ pc = "idle" /\ wire = <<>>
    /\ (fn = "write_register" /\ Len(args.write_data) \notin 1..10) =>
          ret = FALSE /\ ser_out = <<>> /\ pc = "idle" /\ wire = <<>>
    /\ ( /\ fn = "build_request_frame"
         /\ args.reg_addr \in 0..65535
         /\ args.data_len \in 0..65535 ) =>
          /\ ~ret.none
          /\ SubSeq(fromhex(ret.val), 7, 8) = <<args.data_len % 256, args.data_len \div 256>>

C4_Witness ==
    /\ fn = "read_register"
    /\ args.read_len = 513
    /\ pc = "idle"
    /\ ret.none
    /\ ser_out = <<>>

\* C5: read_register returns data only from a valid frame: whenever it returns
\* payload bytes, the response's checksum matched and the payload has the
\* declared data_len bytes.
C5_OnlyValidFramesYieldData ==
    (fn = "read_register" /\ pc = "idle" /\ ~ret.none /\ ret.val # <<>>) =>
        /\ parsed.val.lrc_valid
        /\ Len(parsed.val.data) = parsed.val.data_len

\* C6: a buffer of 8 bytes or more with head AA 55 and bit 0x80 set in its
\* function byte parses to a device-error record with error code function - 128
\* (= function & 0x7F) and no payload; read_register and a normal
\* write_register that receive such a response fail.
C6_IsErrorFrame(buf) ==
    /\ Len(buf) >= 8
    /\ SubSeq(buf, 1, 2) = <<170, 85>>
    /\ buf[4] >= 128

C6_IsErrorRecord(r, buf) ==
    /\ ~r.none
    /\ r.log = "device_error"
    /\ r.val.is_error
    /\ r.val.error_code = buf[4] - 128
    /\ r.val.data = <<>>
    /\ ~r.val.lrc_valid

C6_DeviceError ==
    /\ (fn = "parse_response" /\ C6_IsErrorFrame(args.response)) =>
          C6_IsErrorRecord(ret, args.response)
    /\ ( /\ fn = "read_register"
         /\ pc = "idle"
         /\ ~reader_ret.none
         /\ C6_IsErrorFrame(reader_ret.val) ) =>
          ret.none /\ C6_IsErrorRecord(parsed, reader_ret.val)
    /\ ( /\ fn = "write_register"
         /\ ~args.is_auto_push
         /\ pc = "idle"
         /\ ~reader_ret.none
         /\ C6_IsErrorFrame(reader_ret.val) ) =>
          ret = FALSE /\ C6_IsErrorRecord(parsed, reader_ret.val)

C6_Witness ==
    /\ fn = "read_register"
    /\ pc = "idle"
    /\ ~reader_ret.none
    /\ C6_IsErrorFrame(reader_ret.val)
    /\ reader_ret.val[4] = 131
    /\ parsed.val.error_code = 3
    /\ parsed.val.data_len = 1
    /\ ret.none

\* C9: a normal write_register returns True only after a general response
\* (head AA 55, function 0x10, error bit clear) whose extracted status payload
\* holds zero bytes only; a nonzero byte in the extracted status payload, or in
\* the declared payload of a response that holds the whole frame, makes it
\* return False.
C9_NormalWriteDone == fn = "write_register" /\ ~args.is_auto_push /\ pc = "idle"

C10_AutoWriteDone == fn = "write_register" /\ args.is_auto_push /\ pc = "idle"

C10_AutoWriteStatus ==
    C10_AutoWriteDone =>
        /\ ret \in BOOLEAN
        /\ ret = TRUE <=>
              /\ ~reader_ret.none
              /\ Len(reader_ret.val) >= 7
              /\ SubSeq(reader_ret.val, 1, 2) = <<170, 86>>
              /\ reader_ret.val[6] = 0

C10_Witness ==
    /\ C10_AutoWriteDone
    /\ ret = TRUE
    /\ ser_out = <<85, 170, 0, 16, 23, 0, 1, 0, 1, 216>>
    /\ reader_ret.val = <<170, 86, 0, 1, 0, 0, 255>>

\* C11 as stated: disable_auto_push reports success only when a response of
\* the device was read and indicates success.
C11_AsStated ==
    (fn = "disable_auto_push" /\ pc = "idle" /\ ret = TRUE) =>
        ~Falsy(reader_ret) /\ write_register_result(reader_ret, FALSE)

C11_EnableFrame == <<85, 170, 0, 16, 23, 0, 1, 0, 1, 216>>
C11_DisableFrame == <<85, 170, 0, 16, 23, 0, 1, 0, 0, 217>>

\* C11: enable_auto_push is a write exchange on register 0x0017 with payload
\* 01 that waits for an AA 56 response and returns True only when that response
\* was read and carries error_code 0; disable_auto_push writes the request for
\* register 0x0017 with payload 00, reads nothing, and returns True exactly
\* when the whole frame was written.
C11_EnableExchangeDisableSendOnly ==
    /\ (fn = "enable_auto_push" /\ pc = "idle") =>
          /\ ser_out \in Prefixes(C11_EnableFrame)
          /\ ser_out = C11_EnableFrame => read_end \in {"head", "timeout", "raised"}
          /\ ret = TRUE =>
                /\ ser_out = C11_EnableFrame
                /\ ~reader_ret.none
                /\ Len(reader_ret.val) >= 7
                /\ SubSeq(reader_ret.val, 1, 2) = <<170, 86>>
                /\ reader_ret.val[6] = 0
          /\ ( /\ ser_out = C11_EnableFrame
               /\ ~reader_ret.none
               /\ Len(reader_ret.val) >= 7
               /\ SubSeq(reader_ret.val, 1, 2) = <<170, 86>>
               /\ reader_ret.val[6] = 0 ) => ret = TRUE
    /\ fn = "disable_auto_push" =>
          /\ pc = "idle"
          /\ ser_out \in Prefixes(C11_DisableFrame)
          /\ ret = (ser_out = C11_DisableFrame)
          /\ reader_ret.none /\ recv_data = <<>> /\ in_waiting = <<>>
          /\ read_end \in {"none", "pending"}

\* disable_auto_push has returned True although the device's response is
\* still on its way: nothing waits for it
C11_Witness ==
    /\ fn = "disable_auto_push"
    /\ ret = TRUE
    /\ wire = AutoFrame(RESP_HEAD_AUTO_PUSH, 1, 1, <<>>, 0)
    /\ read_end = "pending"

C12_TeardownDone ==
    (fn = "main" /\ mpc = "done" /\ ser # "none") =>
        /\ ser = "closed"
        /\ Len(events) >= 3
        /\ events[Len(events)].ev = "close"
        /\ events[Len(events) - 1].ev = "send"
        /\ events[Len(events) - 1].frame = C11_DisableFrame
        /\ \A i \in 1..(Len(events) - 1) : events[i].ev # "close"

C12_TeardownStep ==
    /\ (mpc = "finally" /\ ser = "open") =>
          /\ mpc' = "close"
          /\ ser' = "open"
          /\ Len(events') = Len(events) + 1
          /\ events'[Len(events')].ev = "send"
          /\ events'[Len(events')].frame = C11_DisableFrame
          /\ ser_out' = ser_out \o SubSeq(C11_DisableFrame, 1, events'[Len(events')].sent)
    /\ mpc = "close" => (ser' = "closed" /\ mpc' = "done" /\ ser_out' = ser_out)
    /\ (ser = "open" /\ ser' # "open") => mpc = "close"
    /\ ser = "closed" => (ser' = "closed" /\ ser_out' = ser_out)

C12_BodyLeft == fn = "main" /\ ser = "open" /\ mpc \in {"after", "finally", "close"}

\* C12: once the body of main is left with the port open, whatever ended it,
\* the disable frame is attempted, then the port is closed, also when the
\* attempt wrote nothing; nothing is written once the port is closed.
C12_TeardownDisablesThenCloses ==
    /\ []C12_TeardownDone
    /\ [][C12_TeardownStep]_vars
    /\ (C12_BodyLeft ~> (mpc = "done" /\ ser = "closed"))

\* monitoring was interrupted, the disable attempt wrote nothing, the port is closed
C12_Witness ==
    /\ fn = "main"
    /\ mpc = "done"
    /\ ser = "closed"
    /\ events[Len(events) - 1].sent = 0
    /\ \E i \in 1..Len(events) : events[i].ev = "monitor_end"

C13_NoEarlyTimeout ==
    (pc = "read" /\ pc' = "idle" /\ read_end' = "timeout") =>
        now - last_rx >= Timeout

C13_TimerRestarts ==
    (pc = "read" /\ pc' = "read" /\ recv_data' # recv_data) =>
        (elapsed' = 0 /\ last_rx' = now)

C13_NoLateTimeout == (DirectRead /\ pc = "read") => now - last_rx <= Timeout

C13_SilentStream ==
    (DirectRead /\ pc = "idle" /\ read_end = "timeout") =>
        /\ ret.none <=> recv_data = <<>>
        /\ recv_data = <<>> => now = Timeout

\* C13: the reader's deadline restarts whenever bytes are read; it never
\* returns by timeout less than a timeout interval after the last bytes (or the
\* start of the call), never polls on after a full silent interval, and
\* returns in the end; with no byte at all it returns None when exactly the
\* timeout interval has passed.
C13_SlidingTimeout ==
    /\ [][C13_NoEarlyTimeout /\ C13_TimerRestarts]_vars
    /\ [](C13_NoLateTimeout /\ C13_SilentStream)
    /\ ((DirectRead /\ pc = "read") ~> pc = "idle")

\* bytes arrived after the call began, the timer restarted, and the call
\* returned them one timeout interval later
C13_Witness ==
    /\ fn = "read_serial_data"
    /\ pc = "idle"
    /\ read_end = "timeout"
    /\ last_rx > 0
    /\ now = last_rx + Timeout
    /\ recv_data # <<>>

C14_Has(head, acc) == \E p \in 1..(Len(acc) - 1) : SubSeq(acc, p, p + 1) = head

C14_FromFirst(head, acc) ==
    LET first == CHOOSE p \in 1..(Len(acc) - 1) :
                     /\ SubSeq(acc, p, p + 1) = head
                     /\ \A q \in 1..(p - 1) : SubSeq(acc, q, q + 1) # head
    IN  SubSeq(acc, first, Len(acc))

C14_ReturnsAtHead ==
    LET acc == recv_data \o in_waiting
    IN  ( /\ fn = "read_serial_data"
          /\ pc = "read"
          /\ in_waiting # <<>> /\ in_waiting' = <<>>
          /\ args.expected_head # <<>>
          /\ C14_Has(args.expected_head, acc) ) =>
            /\ pc' = "idle"
            /\ read_end' = "head"
            /\ ret' = Some(C14_FromFirst(args.expected_head, acc))
            /\ now' = now

C14_NeverPollsOnWithHead ==
    (fn = "read_serial_data" /\ pc = "read" /\ args.expected_head # <<>>) =>
        ~C14_Has(args.expected_head, recv_data)

\* C14: with an expected head the reader returns in the very pass in which
\* the accumulated buffer (earlier chunks plus the one just read) first
\* contains the two marker bytes, at that time, and returns the accumulated
\* bytes from the first occurrence of the marker on.
C14_ReturnsAtFirstHead ==
    /\ [][C14_ReturnsAtHead]_vars
    /\ []C14_NeverPollsOnWithHead

\* the whole stream starts with the marker and was returned, although its
\* first byte had been read alone in an earlier pass
C14_Witness ==
    /\ fn = "read_serial_data"
    /\ pc = "idle"
    /\ read_end = "head"
    /\ Len(ret.val) = MaxStream
    /\ SubSeq(ret.val, 1, 2) = args.expected_head
    /\ last_rx > 0

\* C15 as stated: a call of the reader is over within a bound its caller
\* fixes with the timeout argument (twice the timeout here), whatever arrives.
C15_ReturnsWithinDeadline == DirectRead => now <= 2 * Timeout

\* C16 as stated: a frame whose checksum is wrong or whose payload is cut
\* short is skipped, so every record monitor_auto_push prints has a valid
\* checksum.
C16_MalformedNeverDelivered ==
    fn = "monitor_auto_push" =>
        \A i \in 1..Len(samples) : samples[i].lrc_valid

\* C17 as stated: monitoring started with a duration is over once the
\* duration has passed, whatever arrives; two reader timeouts are allowed
\* here for the call of the reader during which the duration ran out.
C17_StopsAfterDuration ==
    (fn = "monitor_auto_push" /\ args.duration # 0 /\ mpc = "monitor") =>
        mon_now <= args.duration + 2 * AutoPushPolls

\* a step that writes a request (or a part of one) to the port
C18_SendStep ==
    /\ Len(events') = Len(events) + 1
    /\ events'[Len(events')].ev = "send"

C18_WaitOver == read_end \in {"none", "head", "timeout", "raised"}

\* C18 as stated: whenever a request is written, teardown included, the wait
\* for the response to the request before it is over.
C18_AsStated == [][C18_SendStep => C18_WaitOver]_vars

C18_BodyAlternates ==
    (C18_SendStep /\ mpc # "finally") => (C18_WaitOver /\ pc = "idle")

C18_TeardownSendsDisable ==
    (C18_SendStep /\ mpc = "finally") =>
        events'[Len(events')].frame = C11_DisableFrame

C18_TeardownSendIsLast == mpc \in {"close", "done"} => ~C18_SendStep

\* C18: in the body of main a request is written only when the reader is not
\* running and the wait for the previous response is over (head found,
\* timeout or read error) or there was none; the finally block writes the
\* disable request whatever the state of that wait, and nothing after it.
C18_AlternatesExceptTeardown ==
    [][C18_BodyAlternates /\ C18_TeardownSendsDisable /\ C18_TeardownSendIsLast]_vars

\* an interrupt cut the wait for a response short and the finally block has
\* written to the port while the device's bytes were still on their way
C18_Witness ==
    /\ fn = "main"
    /\ mpc = "close"
    /\ read_end = "interrupted"
    /\ events[Len(events)].sent = 1
    /\ wire # <<>>

C19_QuietWhileStreaming ==
    mpc = "monitor" => (ser_out' = ser_out /\ ~C18_SendStep)

C19_OnlyDisableAfterStreaming ==
    fn = "main" =>
        \A i \in 1..Len(events) : \A j \in (i + 1)..Len(events) :
            (events[i].ev = "monitor_start" /\ events[j].ev = "send") =>
                /\ events[j].frame = C11_DisableFrame
                /\ \E m \in (i + 1)..(j - 1) : events[m].ev = "monitor_end"
                /\ \A n \in (i + 1)..Len(events) : events[n].ev = "send" => n = j

\* C19: while monitor_auto_push runs inside main nothing is written to the
\* port; after it started the only request written is one auto-push disable
\* frame, and only after the monitoring loop has ended.
C19_NoRequestWhileStreaming ==
    /\ [][C19_QuietWhileStreaming]_vars
    /\ []C19_OnlyDisableAfterStreaming

\* a sample was printed, monitoring was stopped, and the disable frame went
\* out whole
C19_Witness ==
    /\ fn = "main"
    /\ mpc = "close"
    /\ samples # <<>>
    /\ events[Len(events)].frame = C11_DisableFrame
    /\ events[Len(events)].sent = Len(C11_DisableFrame)
    /\ events[Len(events) - 1].ev = "monitor_end"

C20_ParserFailures == {"frame_too_short", "head_mismatch", "invalid_func", "exception"}

C20_ParsersReturn ==
    fn \in {"parse_response", "parse_auto_response", "parse_auto_push_data"} =>
        /\ ret.none <=> ret.log \in C20_ParserFailures
        /\ ~ret.none <=> ret.log \in {"parsed", "device_error"}

C20_Sent == IF fn = "disable_auto_push" THEN ser_out = C11_DisableFrame
            ELSE read_end # "none"

C20_OperationsReturn ==
    /\ pc \in {"idle", "settle", "read"}
    /\ (fn = "read_register" /\ pc = "idle") =>
          /\ (~C20_Sent \/ Falsy(reader_ret) \/ parsed.none) => ret = None
          /\ (~parsed.none /\ parsed.val.is_error) => ret = None
    /\ (IsWrite /\ pc = "idle") =>
          /\ ret \in BOOLEAN
          /\ (~C20_Sent \/ Falsy(reader_ret) \/ parsed.none) => ret = FALSE
          /\ (~parsed.none /\ ~WriteArgs.is_auto_push /\ parsed.val.is_error) => ret = FALSE
          /\ (~parsed.none /\ WriteArgs.is_auto_push /\ parsed.val.error_code # 0) =>
                ret = FALSE
    /\ fn = "disable_auto_push" =>
          /\ ret \in BOOLEAN
          /\ ~C20_Sent => ret = FALSE

C21_Echo(frame) ==
    LET body == RESP_HEAD_GENERAL \o SubSeq(frame, 3, Len(frame) - 1)
    IN  body \o <<DeviceLrc(body)>>

\* a request the register operations can build: a read of 1..512 bytes without
\* payload, or a write whose declared length is its payload of 1..10 bytes
C21_InBounds(a) ==
    /\ a.func_code \in {FUNC_READ, FUNC_WRITE}
    /\ a.reg_addr \in 0..65535
    /\ IF a.func_code = FUNC_WRITE
       THEN Len(a.write_data) \in 1..10 /\ a.data_len = Len(a.write_data)
       ELSE a.write_data = <<>> /\ a.data_len \in 1..512

\* C21: a request built for function 0x03 or 0x10, any register address in
\* 0..65535 and a payload within bounds, turned into the device's echo (head
\* AA 55, checksum recomputed) and handed to parse_response, gives back the
\* same function code, the same register address, the same payload bytes and
\* lrc_valid = true.
C21_RoundTrip ==
    (fn = "build_request_frame" /\ C21_InBounds(args)) =>
        /\ ~ret.none
        /\ LET p == parse_response(C21_Echo(fromhex(ret.val)))
           IN  /\ ~p.none
               /\ ~p.val.is_error
               /\ p.val.func_code = args.func_code
               /\ p.val.reg_addr = args.reg_addr
               /\ p.val.data = args.write_data
               /\ p.val.lrc_valid

C21_Witness ==
    /\ fn = "build_request_frame"
    /\ C21_InBounds(args)
    /\ args.func_code = FUNC_WRITE
    /\ args.reg_addr = 4660
    /\ args.write_data = <<1, 0>>
    /\ parse_response(C21_Echo(fromhex(ret.val))).val.data = <<1, 0>>

\* the verification step of the parsers (lines 241-242, 176-177, 402-403)
\* applied to a buffer: the LRC of all bytes except the last against the last
C22_StepAccepts(buf) == calc_lrc(Slice(buf, 0, -1)) = GetItem(buf, -1)

\* the buffers on which a parser runs its verification step
C22_Verified ==
    \/ fn = "parse_response" /\ ret.log = "parsed" /\ Len(args.response) >= 9
    \/ /\ fn = "parse_auto_response"
       /\ ~ret.none
       /\ Len(args.response) >= 6 + ret.val.valid_data_len + 1
    \/ /\ fn = "parse_auto_push_data"
       /\ ~ret.none
       /\ Len(args.data) >= 6 + ret.val.valid_data_len + 1

C22_Buffer == IF fn = "parse_auto_push_data" THEN args.data ELSE args.response

\* C22: for every byte sequence b, b followed by lrc(b) passes the parsers'
\* verification step (the LRC of all bytes except the last equals the last
\* byte), and b followed by any other byte fails it; a parser that runs the
\* step reports lrc_valid accordingly.
C22_AppendedLrcVerifies ==
    /\ fn = "calc_lrc" =>
          /\ ret \in 0..255
          /\ \A x \in 0..255 : C22_StepAccepts(args.data \o <<x>>) <=> (x = ret)
    /\ C22_Verified =>
          LET buf == C22_Buffer
              b == SubSeq(buf, 1, Len(buf) - 1)
          IN  ret.val.lrc_valid <=> (buf[Len(buf)] = DeviceLrc(b))

C22_Witness ==
    /\ fn = "parse_response"
    /\ C22_Verified
    /\ Len(args.response) = 11
    /\ args.response[11] = calc_lrc(SubSeq(args.response, 1, 10))
    /\ ret.val.lrc_valid

\* C23: for every general-response buffer holding at least 8 + data_len + 1
\* bytes, bytes after the frame included, parse_response sets lrc_valid true
\* exactly when the LRC of bytes [0, 8 + data_len) equals the byte at offset
\* 8 + data_len, and still returns the record when they differ.
C23_LrcAtChecksumOffset ==
    (/\ fn = "parse_response"
     /\ ~RespTooShort(args.response)
     /\ ~RespHeadBad(args.response)
     /\ args.response[4] \in {FUNC_READ, FUNC_WRITE}
     /\ Len(args.response) >=
            8 + from_bytes_little(Slice(args.response, 6, 8)) + 1) =>
        LET data_len == from_bytes_little(Slice(args.response, 6, 8))
        IN  /\ ~ret.none
            /\ ret.val.lrc_valid <=>
                   (DeviceLrc(SubSeq(args.response, 1, 8 + data_len))
                        = args.response[8 + data_len + 1])

\* the outcome the check order short / head / error bit / function gives
C24_Outcome(r) ==
    IF Len(r) < 8 THEN "frame_too_short"
    ELSE IF <<r[1], r[2]>> # <<170, 85>> THEN "head_mismatch"
    ELSE IF r[4] >= 128 THEN "device_error"
    ELSE IF r[4] \notin {3, 16} THEN "invalid_func"
    ELSE "parsed"

\* C24: parse_response checks in the order too short (under 8 bytes), bad
\* head, device-error bit, unknown function: the first check that applies
\* decides.  A function byte with bit 7 set gives the device-error record with
\* error code = function - 128 (0x85 gives 5), never the unknown-function
\* failure; any other function byte besides 0x03 and 0x10 (0x04) gives the
\* unknown-function failure with no record.
C24_CheckOrder ==
    fn = "parse_response" =>
        /\ ret.log = C24_Outcome(args.response)
        /\ ret.log \in {"frame_too_short", "head_mismatch", "invalid_func"} =>
              ret.none
        /\ ret.log = "device_error" =>
              /\ ~ret.none
              /\ ret.val.is_error
              /\ ret.val.error_code = args.response[4] - 128
        /\ ret.log = "parsed" => ~ret.none /\ ~ret.val.is_error

C24_Witness ==
    /\ fn = "parse_response"
    /\ Len(args.response) >= 8
    /\ Slice(args.response, 0, 2) = RESP_HEAD_GENERAL
    /\ args.response[4] = 133
    /\ ~ret.none
    /\ ret.val.is_error
    /\ ret.val.error_code = 5

\* C25: for a general response that declares data_len > 0 and is decoded
\* (function 0x03 or 0x10), a buffer of at least 8 + data_len + 1 bytes gives
\* exactly the data_len bytes from offset 8 as payload; a shorter buffer
\* gives the bytes from offset 8 up to but excluding the last byte, the parse
\* still succeeds, and the extracted payload is shorter than data_len.
C25_PayloadExtraction ==
    (/\ fn = "parse_response"
     /\ C24_Outcome(args.response) = "parsed"
     /\ args.response[7] + 256 * args.response[8] > 0) =>
        LET r == args.response
            data_len == r[7] + 256 * r[8]
        IN  /\ ~ret.none
            /\ ret.val.data_len = data_len
            /\ IF Len(r) >= 8 + data_len + 1
               THEN ret.val.data = SubSeq(r, 9, 8 + data_len)
               ELSE /\ ret.val.data = SubSeq(r, 9, Len(r) - 1)
                    /\ Len(ret.val.data) < data_len

C25_Witness ==
    /\ fn = "parse_response"
    /\ ~ret.none
    /\ ret.val.data_len = 3
    /\ Len(args.response) = 11
    /\ ret.val.data = SubSeq(args.response, 9, 10)

\* the buffer an auto-push parser was called with
C26_Buffer == IF fn = "parse_auto_push_data" THEN args.data ELSE args.response

\* C26: for every buffer of at least 7 bytes with head AA 56, both auto-push
\* parsers return valid_frame_len = the little-endian value of bytes 3..4,
\* error_code = byte 5 and valid_data_len = valid_frame_len - 1.  A buffer of
\* at least 6 + valid_data_len + 1 bytes gives the valid_data_len bytes from
\* offset 6 as valid_data and a computed checksum verdict; a shorter one gives
\* the bytes from offset 6 up to but excluding the last byte, fewer than
\* valid_data_len, and no checksum is computed.
C26_AutoPushFields ==
    (/\ fn \in {"parse_auto_response", "parse_auto_push_data"}
     /\ Len(C26_Buffer) >= 7
     /\ <<C26_Buffer[1], C26_Buffer[2]>> = <<170, 86>>) =>
        LET r == C26_Buffer
            vlen == r[4] + 256 * r[5]
        IN  /\ ~ret.none
            /\ ret.val.valid_frame_len = vlen
            /\ ret.val.error_code = r[6]
            /\ ret.val.valid_data_len = vlen - 1
            /\ IF Len(r) >= 6 + (vlen - 1) + 1
               THEN /\ ret.val.valid_data = SubSeq(r, 7, 6 + (vlen - 1))
                    /\ ret.val.lrc_recv = r[Len(r)]
                    /\ ret.val.lrc_calc = DeviceLrc(SubSeq(r, 1, Len(r) - 1))
                    /\ ret.val.lrc_valid <=> (ret.val.lrc_calc = ret.val.lrc_recv)
               ELSE /\ ret.val.valid_data = SubSeq(r, 7, Len(r) - 1)
                    /\ Len(ret.val.valid_data) < vlen - 1
                    /\ ~ret.val.lrc_valid
                    /\ ret.val.lrc_calc = 0

C26_Witness ==
    /\ fn = "parse_auto_push_data"
    /\ ~ret.none
    /\ ret.val.valid_frame_len = 3
    /\ Len(args.data) = 8
    /\ ret.val.valid_data = <<args.data[7]>>
    /\ ~ret.val.lrc_valid

\* C27: parse_auto_response and parse_auto_push_data called without an
\* expected length are one decoder: on every buffer both fail or both
\* succeed, and on success they agree on head, reserved, valid_frame_len,
\* error_code, valid_data_len, valid_data, lrc_calc, lrc_recv and lrc_valid.
C27_SameDecoder ==
    fn = "parse_auto_response" =>
        LET q == parse_auto_push_data(args.response, 0)
        IN  /\ ret.none = q.none
            /\ ~ret.none =>
                  \A k \in {"head", "reserved", "valid_frame_len", "error_code",
                             "valid_data_len", "valid_data", "lrc_calc",
                             "lrc_recv", "lrc_valid"} : ret.val[k] = q.val[k]

C27_Witness ==
    /\ fn = "parse_auto_response"
    /\ ~ret.none
    /\ ret.val.lrc_valid
    /\ ret.val.valid_data = <<1, 0>>
    /\ parse_auto_push_data(args.response, 0).val.valid_data = <<1, 0>>

\* C28: every record returned by either auto-push parser has a non-negative
\* valid_data_len and a valid_data no longer than valid_data_len, also when
\* the frame declares valid_frame_len = 0.
C28_LengthsNonNegative ==
    (fn \in {"parse_auto_response", "parse_auto_push_data"} /\ ~ret.none) =>
        /\ ret.val.valid_data_len >= 0
        /\ Len(ret.val.valid_data) <= ret.val.valid_data_len

\* C29: whenever read_serial_data is called with an expected head, a buffer
\* it returns begins with that head; bytes that arrived without the head ever
\* appearing are not returned (the call reports no data at the timeout).
C29_ReturnsOnlySynchronised ==
    (/\ fn = "read_serial_data"
     /\ pc = "idle"
     /\ args.expected_head # <<>>
     /\ ~ret.none) =>
        /\ Len(ret.val) >= 2
        /\ SubSeq(ret.val, 1, 2) = args.expected_head

\* the buffer is one or more whole well-formed auto-push frames, end to end
C30_WholeFrames(buf) ==
    /\ Len(buf) > 0
    /\ Len(buf) % Len(PushFrame) = 0
    /\ \A i \in 0..((Len(buf) \div Len(PushFrame)) - 1) :
          SubSeq(buf, i * Len(PushFrame) + 1, (i + 1) * Len(PushFrame)) = PushFrame

\* C30: in a streaming session no sample is lost or duplicated.  The case
\* of several frames arriving within one poll: when the reader, with nothing
\* buffered, reads one or more whole well-formed frames in a pass, as many
\* samples are delivered as frames were read, each the record of its frame
\* (the bytes are gone from the port and from the reader after that pass).
C30_EveryFrameDelivered ==
    [][ (/\ fn = "monitor_auto_push"
         /\ pc = "read"
         /\ recv_data = <<>>
         /\ C30_WholeFrames(in_waiting)
         /\ in_waiting' = <<>>
         /\ mpc' # "cancelled") =>
            /\ Len(samples') = Len(samples) + Len(in_waiting) \div Len(PushFrame)
            /\ \A i \in (Len(samples) + 1)..Len(samples') :
                  /\ samples'[i].valid_data = <<1>>
                  /\ samples'[i].lrc_valid ]_vars
====
